---- MODULE Spec2Model ----
(***************************************************************************)
(* Model of src/src/extension.ts (vs-buddy): the session tracker           *)
(* (activate / deactivate), the persisted usage log (saveSession) and the  *)
(* usage report (showUsageStats, formatDuration).                          *)
(*                                                                         *)
(* Representation.  A value of type `T | null' (or a possibly absent       *)
(* value) is a sequence of length at most one: << >> is null/absent and    *)
(* <<v>> is the value v.  A JavaScript Map is the sequence of its entries  *)
(* [key, value] in insertion order.  A calendar day "YYYY-MM-DD" is the    *)
(* number of the UTC day since the epoch; the lexicographic order of the   *)
(* strings is the numeric order of the day numbers.                        *)
(***************************************************************************)
EXTENDS Integers, Sequences, FiniteSets

VARIABLES
    currentSession,   \* module variable currentSession: << >> or <<session>>
    activated,        \* globalState assigned and the commands registered
    store,            \* globalState's value under 'usageData': << >> or <<usageData>>
    report,           \* what the last showUsageStats put in the panel: << >> or <<r>>
    nextId,           \* history: number of the next session to be started
    openId,           \* history: number of the session held by currentSession, 0 if none
    savedIds,         \* history: numbers of the sessions in store's sessions, in order
    discardedIds,     \* history: numbers of the sessions overwritten while open
    ms,               \* argument of a direct formatDuration call
    formatted         \* its result: << >> or <<[hours, minutes, seconds]>>

vars == <<currentSession, activated, store, report,
          nextId, openId, savedIds, discardedIds, ms, formatted>>

trackerVars == <<currentSession, activated, store, report,
                 nextId, openId, savedIds, discardedIds>>

---------------------------------------------------------------------------
(* Bounds *)

\* Readings of the wall clock (new Date().getTime()) are drawn from 0..MaxTime.
MaxTime == 2

\* Milliseconds in a calendar day, scaled down (86400000 in reality).
DayLen == 2

\* Number of startNewSession calls in a run.
MaxStarts == 3

\* Direct formatDuration calls take ms = q * 1000 + r, q in 0..MaxSecs.
MaxSecs == 3700

---------------------------------------------------------------------------
(* Values *)

Null == << >>

Some(v) == <<v>>

\* Date.getTime() is the wall clock: the code relates no two readings of it,
\* and the host's clock may be set back between two readings.
Clock == 0..MaxTime

\* now.toISOString().split('T')[0]: the UTC calendar day of the instant.
DateOf(now) == now \div DayLen

\* JavaScript truthiness of a `number | null'.
Truthy(n) == n # Null /\ n[1] # 0

\* `n || 0' for a `number | null'.
OrZero(n) == IF Truthy(n) THEN n[1] ELSE 0

\* JavaScript a % b for b > 0: the remainder has the sign of the dividend.
JsRem(a, b) == IF a >= 0 THEN a % b ELSE -((-a) % b)

EmptyUsageData == [sessions |-> << >>, totalTimeMs |-> 0]

\* globalState.get('usageData') || { sessions: [], totalTimeMs: 0 }
getUsageData(st) == IF st = Null THEN EmptyUsageData ELSE st[1]

---------------------------------------------------------------------------
(* Session tracker *)

\* The object startNewSession assigns to currentSession.
startNewSession(now) ==
    [startTime |-> now,
     endTime   |-> Null,
     date      |-> DateOf(now),
     duration  |-> Null]

\* Mutant of closeSession: the subtraction the wrong way round.
closeSession_swapped(session, now) ==
    [session EXCEPT !.endTime  = Some(now),
                    !.duration = Some(session.startTime - now)]

\* endCurrentSession's two assignments to the open session.
closeSession(session, now) ==
    [session EXCEPT !.endTime  = Some(now),
                    !.duration = Some(now - session.startTime)]

\* Mutant of saveSession: `=' for `+=' on totalTimeMs.
saveSession_assign(st, session) ==
    LET usageData == getUsageData(st)
    IN  Some([sessions    |-> Append(usageData.sessions, session),
              totalTimeMs |-> IF Truthy(session.duration)
                                THEN session.duration[1]
                                ELSE usageData.totalTimeMs])

\* Mutant of saveSession: unshift for push.
saveSession_unshift(st, session) ==
    LET usageData == getUsageData(st)
    IN  Some([sessions    |-> <<session>> \o usageData.sessions,
              totalTimeMs |-> IF Truthy(session.duration)
                                THEN usageData.totalTimeMs + session.duration[1]
                                ELSE usageData.totalTimeMs])

\* saveSession: the value written back under 'usageData'.
saveSession(st, session) ==
    LET usageData == getUsageData(st)
    IN  Some([sessions    |-> Append(usageData.sessions, session),
              totalTimeMs |-> IF Truthy(session.duration)
                                THEN usageData.totalTimeMs + session.duration[1]
                                ELSE usageData.totalTimeMs])

\* Mutant of endCurrentSession: currentSession is not reset to null.
endCurrentSession_keepOpen(now) ==
    IF currentSession # Null
      THEN /\ store' = saveSession(store, closeSession(currentSession[1], now))
           /\ savedIds' = Append(savedIds, openId)
           /\ UNCHANGED <<currentSession, openId>>
      ELSE UNCHANGED <<store, currentSession, savedIds, openId>>

\* if (currentSession) { close it; saveSession(it); currentSession = null }
endCurrentSession(now) ==
    IF currentSession # Null
      THEN /\ store' = saveSession(store, closeSession(currentSession[1], now))
           /\ currentSession' = Null
           /\ savedIds' = Append(savedIds, openId)
           /\ openId' = 0
      ELSE UNCHANGED <<store, currentSession, savedIds, openId>>

\* Mutant of Activate: a session still open is closed and saved before the
\* new one starts.
Activate_autoClose ==
    /\ nextId <= MaxStarts
    /\ \E now \in Clock :
         /\ currentSession' = Some(startNewSession(now))
         /\ IF currentSession # Null
              THEN /\ store' = saveSession(store, closeSession(currentSession[1], now))
                   /\ savedIds' = Append(savedIds, openId)
              ELSE UNCHANGED <<store, savedIds>>
    /\ activated' = TRUE
    /\ nextId' = nextId + 1
    /\ openId' = nextId
    /\ UNCHANGED <<discardedIds, report, ms, formatted>>

\* activate: globalState is set, startNewSession runs, the commands are
\* registered.
Activate ==
    /\ nextId <= MaxStarts
    /\ \E now \in Clock : currentSession' = Some(startNewSession(now))
    /\ activated' = TRUE
    /\ nextId' = nextId + 1
    /\ openId' = nextId
    /\ discardedIds' = IF openId # 0 THEN discardedIds \cup {openId}
                                     ELSE discardedIds
    /\ UNCHANGED <<store, report, savedIds, ms, formatted>>

\* deactivate: endCurrentSession at the clock's reading.
Deactivate ==
    /\ \E now \in Clock : endCurrentSession(now)
    /\ UNCHANGED <<activated, report, nextId, discardedIds, ms, formatted>>

---------------------------------------------------------------------------
(* Reporter *)

\* Mutant of formatDuration: the minutes are not reduced modulo 60.
formatDuration_noWrap(milliseconds) ==
    LET seconds == milliseconds \div 1000
        minutes == seconds \div 60
        hours   == minutes \div 60
    IN  [hours   |-> hours,
         minutes |-> minutes,
         seconds |-> JsRem(seconds, 60)]

\* formatDuration: the three numbers of `${hours}h ${minutes}m ${seconds}s'.
\* Math.floor(a / b) for b > 0 is a \div b, also for a negative a.
formatDuration(milliseconds) ==
    LET seconds == milliseconds \div 1000
        minutes == seconds \div 60
        hours   == minutes \div 60
    IN  [hours   |-> hours,
         minutes |-> JsRem(minutes, 60),
         seconds |-> JsRem(seconds, 60)]

MapHas(map, key) == \E i \in 1..Len(map) : map[i].key = key

MapIndex(map, key) == CHOOSE i \in 1..Len(map) : map[i].key = key

MapGet(map, key) == map[MapIndex(map, key)].value

\* Map.prototype.set: a new key goes last, an old key keeps its place.
MapSet(map, key, value) ==
    IF MapHas(map, key)
      THEN [map EXCEPT ![MapIndex(map, key)].value = value]
      ELSE Append(map, [key |-> key, value |-> value])

\* Mutant of groupSession: the bucket is reset without the has() test.
groupSession_reset(map, session) ==
    MapSet(MapSet(map, session.date, << >>), session.date, <<session>>)

\* One turn of the grouping loop.
groupSession(map, session) ==
    LET ensured == IF MapHas(map, session.date)
                     THEN map
                     ELSE MapSet(map, session.date, << >>)
    IN  MapSet(ensured, session.date,
               Append(MapGet(ensured, session.date), session))

RECURSIVE groupFrom(_, _)
groupFrom(sessions, map) ==
    IF sessions = << >>
      THEN map
      ELSE groupFrom(Tail(sessions), groupSession(map, Head(sessions)))

\* sessionsByDate after the loop over usageData.sessions.
groupByDate(sessions) == groupFrom(sessions, << >>)

\* Mutant of reduceDurations: the callback drops the accumulated sum.
RECURSIVE reduceDurations_dropSum(_, _)
reduceDurations_dropSum(sessions, sum) ==
    IF sessions = << >>
      THEN sum
      ELSE reduceDurations_dropSum(Tail(sessions), OrZero(Head(sessions).duration))

\* sessions.reduce((sum, session) => sum + (session.duration || 0), 0)
RECURSIVE reduceDurations(_, _)
reduceDurations(sessions, sum) ==
    IF sessions = << >>
      THEN sum
      ELSE reduceDurations(Tail(sessions), sum + OrZero(Head(sessions).duration))

\* dailyTotals: one entry per bucket, in the buckets' order.
dailyTotalsOf(sessionsByDate) ==
    [i \in 1..Len(sessionsByDate) |->
        [key   |-> sessionsByDate[i].key,
         value |-> reduceDurations(sessionsByDate[i].value, 0)]]

\* Array.from(keys).sort().reverse(): the keys in descending order.
RECURSIVE sortDescending(_)
sortDescending(keys) ==
    IF keys = {}
      THEN << >>
      ELSE LET top == CHOOSE k \in keys : \A other \in keys : other <= k
           IN  <<top>> \o sortDescending(keys \ {top})

sortedDatesOf(dailyTotals) ==
    sortDescending({dailyTotals[i].key : i \in 1..Len(dailyTotals)})

\* The <tr> of one date.
tableRow(date, sessionsByDate, dailyTotals) ==
    [date     |-> date,
     duration |-> formatDuration(MapGet(dailyTotals, date)),
     count    |-> Len(MapGet(sessionsByDate, date))]

\* Math.max(...dailyData.map(d => d[1])) of a non-empty dailyData.
maxValueOf(dailyData) ==
    LET values == {dailyData[i].value : i \in 1..Len(dailyData)}
    IN  CHOOSE v \in values : \A other \in values : other <= v

\* (value / maxValue) * 100: the quotient value / maxValue, kept as the two
\* numbers; a zero divisor gives NaN (0 / 0) or an infinity.
percentage(value, maxValue) ==
    [kind |-> IF maxValue # 0 THEN "finite"
              ELSE IF value = 0 THEN "NaN"
              ELSE IF value > 0 THEN "Infinity" ELSE "-Infinity",
     num  |-> value,
     den  |-> maxValue]

\* The bars the embedded script appends to the chart.  The script's own
\* formatDuration repeats formatDuration statement for statement.
barsOf(dailyData) ==
    [i \in 1..Len(dailyData) |->
        [height |-> percentage(dailyData[i].value, maxValueOf(dailyData)),
         left   |-> (i - 1) * 30,
         date   |-> dailyData[i].key,
         title  |-> formatDuration(dailyData[i].value)]]

\* What showUsageStats computes from the stored value and shows.
renderReport(st) ==
    LET usageData      == getUsageData(st)
        sessionsByDate == groupByDate(usageData.sessions)
        dailyTotals    == dailyTotalsOf(sessionsByDate)
        sortedDates    == sortedDatesOf(dailyTotals)
    IN  [usageData      |-> usageData,
         sessionsByDate |-> sessionsByDate,
         dailyTotals    |-> dailyTotals,
         tableRows      |-> [i \in 1..Len(sortedDates) |->
                               tableRow(sortedDates[i], sessionsByDate, dailyTotals)],
         total          |-> formatDuration(usageData.totalTimeMs),
         bars           |-> barsOf(dailyTotals)]

ShowUsageStats ==
    /\ activated
    /\ report' = Some(renderReport(store))
    /\ UNCHANGED <<currentSession, activated, store,
                   nextId, openId, savedIds, discardedIds, ms, formatted>>

\* A direct call of formatDuration on the argument chosen initially.
FormatCall ==
    /\ formatted = Null
    /\ formatted' = Some(formatDuration(ms))
    /\ UNCHANGED <<ms>>
    /\ UNCHANGED trackerVars

---------------------------------------------------------------------------
(* Specifications *)

TrackerInit ==
    /\ currentSession = Null
    /\ activated = FALSE
    /\ store = Null
    /\ report = Null
    /\ nextId = 1
    /\ openId = 0
    /\ savedIds = << >>
    /\ discardedIds = {}

Init ==
    /\ TrackerInit
    /\ ms = 0
    /\ formatted = Null

Next ==
    \/ Activate
    \/ Deactivate
    \/ ShowUsageStats

\* The extension under any sequence of activate, deactivate and
\* vs-buddy.showUsage calls.
Spec == Init /\ [][Next]_vars

\* Sub-second remainders of the arguments of the direct calls.
Remainders == {0, 1, 500, 999}

FmtInit ==
    /\ TrackerInit
    /\ ms \in {q * 1000 + r : q \in 0..MaxSecs, r \in Remainders}
    /\ formatted = Null

FmtNext == FormatCall

\* formatDuration called once on each argument of a bounded set.
SpecFmt == FmtInit /\ [][FmtNext]_vars

---------------------------------------------------------------------------
(* Properties *)

\* The persisted log, an absent value read as the empty log.
Sessions == getUsageData(store).sessions

TotalTimeMs == getUsageData(store).totalTimeMs

Range(seq) == {seq[i] : i \in 1..Len(seq)}

Last(seq) == seq[Len(seq)]

IsPrefix(a, b) == Len(a) <= Len(b) /\ SubSeq(b, 1, Len(a)) = a

\* The sum of the durations of the entries, an absent duration counting 0.
RECURSIVE DurationSum(_)
DurationSum(seq) ==
    IF Len(seq) = 0
      THEN 0
      ELSE DurationSum(SubSeq(seq, 1, Len(seq) - 1))
             + (IF Last(seq).duration = Null THEN 0 ELSE Last(seq).duration[1])

RECURSIVE ValueSum(_)
ValueSum(entries) ==
    IF Len(entries) = 0
      THEN 0
      ELSE ValueSum(SubSeq(entries, 1, Len(entries) - 1)) + Last(entries).value

RECURSIVE SizeSum(_)
SizeSum(entries) ==
    IF Len(entries) = 0
      THEN 0
      ELSE SizeSum(SubSeq(entries, 1, Len(entries) - 1)) + Len(Last(entries).value)

IsOpen(s) == s.endTime = Null /\ s.duration = Null

IsClosed(s) ==
    /\ s.endTime # Null
    /\ s.duration # Null
    /\ s.duration[1] = s.endTime[1] - s.startTime

\* This step appended exactly one entry to the log: the session that was
\* open before the step, closed.
AppendedCurrent ==
    /\ currentSession # Null
    /\ Len(Sessions') = Len(Sessions) + 1
    /\ SubSeq(Sessions', 1, Len(Sessions)) = Sessions
    /\ IsClosed(Last(Sessions'))
    /\ Last(Sessions').startTime = currentSession[1].startTime
    /\ Last(Sessions').date = currentSession[1].date

\* C1: the persisted totalTimeMs is the sum of the durations of all entries
\* of sessions, after any sequence of calls from an absent log.
C1_TotalIsSumOfDurations == TotalTimeMs = DurationSum(Sessions)

C1_Witness ==
    /\ Len(Sessions) >= 2
    /\ Sessions[1].duration # Sessions[2].duration
    /\ Sessions[1].duration[1] > 0
    /\ Sessions[2].duration[1] > 0

\* C2: the in-memory session is open (no endTime, no duration); every stored
\* session is closed with duration = endTime - startTime; and the entry a
\* step stores carries the startTime and date of the session that was open.
C2_OpenOrClosed ==
    /\ [](/\ currentSession # Null => IsOpen(currentSession[1])
          /\ \A i \in 1..Len(Sessions) : IsClosed(Sessions[i]))
    /\ [][Sessions' # Sessions => AppendedCurrent]_vars

C2_Witness ==
    /\ currentSession # Null
    /\ Len(Sessions) >= 1
    /\ Sessions[1].duration = Some(1)
    /\ Sessions[1].startTime = 1

\* C3: every stored session has duration >= 0, so totalTimeMs and every
\* daily total given to formatDuration are non-negative.
C3_DurationsNonNegative ==
    /\ \A i \in 1..Len(Sessions) : Sessions[i].duration[1] >= 0
    /\ TotalTimeMs >= 0
    /\ report # Null =>
         \A i \in 1..Len(report[1].dailyTotals) :
             report[1].dailyTotals[i].value >= 0

\* C4: sessions is append-only: each step leaves the earlier sequence as a
\* prefix, and a step that changes it adds one entry at the end, the
\* session that step closed.
C4_AppendOnly ==
    [][/\ IsPrefix(Sessions, Sessions')
       /\ Sessions' # Sessions => AppendedCurrent /\ currentSession' = Null]_vars

C4_Witness ==
    /\ report # Null
    /\ Len(report[1].usageData.sessions) = 1
    /\ Len(Sessions) >= 3
    /\ Sessions[1].startTime > Sessions[2].startTime

\* C5: in a report whose maximum daily total is 0 no bar is computed by a
\* division by zero and every bar has height zero; an empty log has no bars.
C5_NoDivisionByZero ==
    report # Null =>
        LET r == report[1]
        IN  /\ r.usageData.sessions = << >> => r.bars = << >>
            /\ \A i \in 1..Len(r.bars) :
                 /\ r.bars[i].height.den # 0
                 /\ maxValueOf(r.dailyTotals) = 0 =>
                      r.bars[i].height.kind = "finite" /\ r.bars[i].height.num = 0

\* C6: the buckets of a report partition the sessions it read: the keys are
\* distinct, each bucket is the subsequence of the sessions whose date is
\* its key, every session's date has a bucket, and the sizes add up.
C6_GroupingIsPartition ==
    report # Null =>
        LET r == report[1]
            S == r.usageData.sessions
            B == r.sessionsByDate
        IN  /\ \A i, j \in 1..Len(B) : B[i].key = B[j].key => i = j
            /\ \A i \in 1..Len(B) :
                 /\ B[i].value # << >>
                 /\ B[i].value = SelectSeq(S, LAMBDA s : s.date = B[i].key)
            /\ \A k \in 1..Len(S) : \E i \in 1..Len(B) : B[i].key = S[k].date
            /\ SizeSum(B) = Len(S)

C6_Witness ==
    /\ report # Null
    /\ Len(report[1].sessionsByDate) = 2
    /\ Len(report[1].sessionsByDate[1].value) = 2
    /\ report[1].usageData.sessions[1].date = report[1].usageData.sessions[3].date
    /\ report[1].usageData.sessions[1] # report[1].usageData.sessions[3]

\* C7: each daily total of a report is the sum of the durations of its
\* date's bucket, and the daily totals add up to the totalTimeMs the report
\* shows in its header.
C7_DailyTotals ==
    report # Null =>
        LET r == report[1]
        IN  /\ Len(r.dailyTotals) = Len(r.sessionsByDate)
            /\ \A i \in 1..Len(r.dailyTotals) :
                 /\ r.dailyTotals[i].key = r.sessionsByDate[i].key
                 /\ r.dailyTotals[i].value = DurationSum(r.sessionsByDate[i].value)
            /\ ValueSum(r.dailyTotals) = r.usageData.totalTimeMs
            /\ r.total = formatDuration(ValueSum(r.dailyTotals))

C7_Witness ==
    /\ report # Null
    /\ Len(report[1].dailyTotals) = 2
    /\ report[1].dailyTotals[1].value = 3
    /\ Len(report[1].sessionsByDate[1].value) = 2
    /\ report[1].usageData.totalTimeMs = 3

\* C8: for ms >= 0, formatDuration gives hours = floor(ms / 3600000),
\* minutes = floor(ms / 60000) mod 60 and seconds = floor(ms / 1000) mod 60,
\* with minutes and seconds in 0..59 and the three adding up to the whole
\* seconds of ms.
C8_FormatDecomposes ==
    (formatted # Null /\ ms >= 0) =>
        LET f == formatted[1]
        IN  /\ f.hours = ms \div 3600000
            /\ f.minutes = (ms \div 60000) % 60
            /\ f.seconds = (ms \div 1000) % 60
            /\ f.minutes \in 0..59
            /\ f.seconds \in 0..59
            /\ f.hours * 3600 + f.minutes * 60 + f.seconds = ms \div 1000
            /\ ms = 3661000 => f = [hours |-> 1, minutes |-> 1, seconds |-> 1]
            /\ ms = 59999 => f = [hours |-> 0, minutes |-> 0, seconds |-> 59]
            /\ ms = 0 => f = [hours |-> 0, minutes |-> 0, seconds |-> 0]

C8_Witness ==
    /\ ms = 3661999
    /\ formatted = Some([hours |-> 1, minutes |-> 1, seconds |-> 1])

\* C9: a deactivate with a session open closes it, appends it once and
\* leaves no session open; a deactivate with no session open leaves the
\* log as it was; no session is stored twice.
C9_CloseOnce ==
    /\ [](\A i, j \in 1..Len(savedIds) : savedIds[i] = savedIds[j] => i = j)
    /\ [][Deactivate =>
            /\ currentSession # Null =>
                 AppendedCurrent /\ currentSession' = Null
            /\ currentSession = Null => UNCHANGED <<store, currentSession>>]_vars

C9_Witness ==
    /\ currentSession = Null
    /\ savedIds = <<1, 2>>
    /\ Len(Sessions) = 2

\* C10: the open session is the one started last; a start while a session
\* is open discards that session without storing it, a discarded session
\* is never in the log, and a deactivate stores the session started last.
C10_OverlappingStartDiscards ==
    /\ [](/\ (openId # 0) = (currentSession # Null)
          /\ openId # 0 => openId = nextId - 1
          /\ discardedIds \cap Range(savedIds) = {}
          /\ Len(savedIds) = Len(Sessions))
    /\ [][/\ (Activate /\ currentSession # Null) =>
               /\ UNCHANGED store
               /\ openId \in discardedIds'
          /\ (Deactivate /\ currentSession # Null) =>
               /\ AppendedCurrent
               /\ savedIds' = Append(savedIds, nextId - 1)]_vars

C10_Witness ==
    /\ discardedIds = {1}
    /\ savedIds = <<2>>
    /\ currentSession = Null

====
